---- MODULE Spec2Model ----
(***************************************************************************)
(* Model of the feature-to-sequence forecasting pipeline:                  *)
(*   features.generate_features, model.preprocess_data, model.train_model  *)
(*   (with its st.cache_resource memoisation and the models/ directory),   *)
(*   model.predict_next_move and the orchestration in app.main.            *)
(*                                                                         *)
(* A dataframe is a record [cols, num, rows]: the ordered column names,    *)
(* the set of columns of numeric dtype, and the rows in index order, each  *)
(* row a function from column name to an integer value.  Floating-point    *)
(* quantities produced by the code (scaled values, prices, confidence)     *)
(* are exact rationals <<numerator, denominator>> with denominator > 0.    *)
(***************************************************************************)
EXTENDS Integers, Sequences, FiniteSets, TLC

\* ------------------------------------------------------------------------
\* Program constants
\* ------------------------------------------------------------------------
LOOKBACK_WINDOW == 60
PREDICTION_HORIZON == 1
TARGET_VARIABLE == "Close"
MIN_DATAFRAME_LENGTH == 90
\* rolling(window=30) over pct_change(): the first 30 rows carry a NaN
VOLATILITY_WINDOW == 30

\* ------------------------------------------------------------------------
\* Bounds of the model
\* ------------------------------------------------------------------------
\* longest table handed to preprocess_data in the direct-call specification
MaxRows == 4
\* largest lookback_window argument in the direct-call specification
MaxLookback == 2
\* number of script runs (reruns of app.main) in one behaviour
MaxRuns == 3
\* denominator of the grid of scaled values a network can output
PredDen == 2
\* pieces that one model.save writes to the file
SaveChunks == 2
\* most windows of a feature table in a direct call of train_model
MaxWindows == 10

\* Python's None, and the objects that can stand where None can
NoneV == [kind |-> "None"]
IsNone(v) == v.kind = "None"

\* ------------------------------------------------------------------------
\* Python helpers
\* ------------------------------------------------------------------------
\* range(a, b) as a sequence
Range(a, b) == IF b > a THEN [k \in 1..(b - a) |-> a + k - 1] ELSE <<>>

\* s.index(x) for a list that contains x (0-based, first occurrence)
IndexOf(s, x) == (CHOOSE k \in 1..Len(s) : s[k] = x /\ \A j \in 1..(k - 1) : s[j] # x) - 1

Contains(s, x) == \E k \in 1..Len(s) : s[k] = x

\* arr[a:b] on a list, 0-based, with 0 <= a <= b
Slice(s, a, b) == SubSeq(s, a + 1, IF b > Len(s) THEN Len(s) ELSE b)

\* arr[-n:] on a list, n > 0
Tail_n(s, n) == IF n >= Len(s) THEN s ELSE SubSeq(s, Len(s) - n + 1, Len(s))

Min(S) == CHOOSE x \in S : \A y \in S : x <= y
Max(S) == CHOOSE x \in S : \A y \in S : x >= y
Abs(x) == IF x < 0 THEN 0 - x ELSE x

\* ------------------------------------------------------------------------
\* pandas helpers
\* ------------------------------------------------------------------------
\* pd.DataFrame()
EmptyFrame == [cols |-> <<>>, num |-> {}, rows |-> <<>>]

\* df.empty: some axis has length 0
IsEmpty(df) == Len(df.rows) = 0 \/ Len(df.cols) = 0

\* df.select_dtypes(include=np.number).columns.tolist()
NumericColumns(df) == SelectSeq(df.cols, LAMBDA c : c \in df.num)

\* df[features].values : one list of values per row, in the order of features
Values(df, features) ==
    [r \in 1..Len(df.rows) |-> [k \in 1..Len(features) |-> df.rows[r][features[k]]]]

\* ------------------------------------------------------------------------
\* sklearn MinMaxScaler(feature_range=(0, 1))
\* ------------------------------------------------------------------------
\* the sequence s itself, as an explicit list of its elements (the fitted
\* attributes are stored arrays, not expressions over the training data)
AsArray(s) == SubSeq(s, 1, Len(s))

\* fit: per-column data_min_ and data_max_ over all rows of data
ScalerFit(data) ==
    LET F == Len(data[1])
    IN  [kind |-> "scaler",
         dmin |-> AsArray([k \in 1..F |-> Min({data[r][k] : r \in 1..Len(data)})]),
         dmax |-> AsArray([k \in 1..F |-> Max({data[r][k] : r \in 1..Len(data)})])]

\* data_range_ with sklearn's zero-range guard (a constant column scales by 1)
ScalerRange(scaler, k) ==
    IF scaler.dmax[k] = scaler.dmin[k] THEN 1 ELSE scaler.dmax[k] - scaler.dmin[k]

\* transform of one row: (x - data_min) / data_range, per column
ScaleRow(scaler, row) ==
    [k \in 1..Len(row) |-> <<row[k] - scaler.dmin[k], ScalerRange(scaler, k)>>]

ScalerTransform(scaler, data) == [r \in 1..Len(data) |-> ScaleRow(scaler, data[r])]

\* inverse_transform of one row of rationals: x * data_range + data_min
ScalerInverseRow(scaler, row) ==
    [k \in 1..Len(row) |->
        <<row[k][1] * ScalerRange(scaler, k) + scaler.dmin[k] * row[k][2], row[k][2]>>]

\* ------------------------------------------------------------------------
\* model.preprocess_data
\* ------------------------------------------------------------------------
NoWindows == [status |-> "none", X |-> <<>>, y |-> <<>>, scaler |-> NoneV, features |-> NoneV]
ValueError == [status |-> "ValueError", X |-> <<>>, y |-> <<>>, scaler |-> NoneV, features |-> NoneV]

\* line 32: the early return for an empty or too short table
TooShort_Strict(df, lookback_window) == IsEmpty(df) \/ Len(df.rows) < lookback_window
TooShort(df, lookback_window) == IsEmpty(df) \/ Len(df.rows) <= lookback_window

\* line 48: the loop indices i (0-based) over the n scaled rows
WindowIndices_Short(n, lookback_window) == Range(lookback_window, n - PREDICTION_HORIZON)
WindowIndices(n, lookback_window) == Range(lookback_window, n - PREDICTION_HORIZON + 1)

\* line 49: the window emitted for loop index i
WindowAt_Leak(scaled_data, i, lookback_window) == Slice(scaled_data, i - lookback_window + 1, i + 1)
WindowAt(scaled_data, i, lookback_window) == Slice(scaled_data, i - lookback_window, i)

\* lines 50-52: the target emitted for loop index i
TargetAt(scaled_data, i, features) ==
    scaled_data[(i + PREDICTION_HORIZON - 1) + 1][IndexOf(features, TARGET_VARIABLE) + 1]

preprocess_data(df, lookback_window) ==
    IF TooShort(df, lookback_window) THEN NoWindows
    ELSE LET features == NumericColumns(df)
         IN  IF ~Contains(features, TARGET_VARIABLE) THEN ValueError
             ELSE LET data == Values(df, features)
                      scaler == ScalerFit(data)
                      scaled_data == ScalerTransform(scaler, data)
                      idx == WindowIndices(Len(scaled_data), lookback_window)
                      X == [k \in 1..Len(idx) |-> WindowAt(scaled_data, idx[k], lookback_window)]
                      y == [k \in 1..Len(idx) |-> TargetAt(scaled_data, idx[k], features)]
                  IN  IF Len(X) = 0 THEN NoWindows
                      ELSE [status |-> "ok", X |-> X, y |-> y,
                            scaler |-> scaler,
                            features |-> [kind |-> "list", names |-> features]]

\* ------------------------------------------------------------------------
\* features.generate_features
\* ------------------------------------------------------------------------
\* The indicator columns added by the ta library are not represented: with
\* fillna=True they carry no NaN.  daily_return = Close.pct_change() is NaN
\* in row 0, so rolling(window=30).std() is NaN in rows 0..29, and
\* dropna(axis=0) removes exactly those rows.
TooFewRows_Off(df) == FALSE
TooFewRows(df) == Len(df.rows) < MIN_DATAFRAME_LENGTH

generate_features(df) ==
    IF TooFewRows(df) THEN EmptyFrame
    ELSE [cols |-> df.cols, num |-> df.num,
          rows |-> SubSeq(df.rows, VOLATILITY_WINDOW + 1, Len(df.rows))]

\* ------------------------------------------------------------------------
\* model.train_model (the function body, below the st.cache_resource wrapper)
\* ------------------------------------------------------------------------
\* MODEL_FILENAME_TPL.format(ticker.replace(".NS", ""))
ModelPath(t) ==
    CASE t = "TCS.NS" -> "models/TCS_lstm_model.keras"
      [] t = "INFY.NS" -> "models/INFY_lstm_model.keras"
      [] t = "TCS" -> "models/TCS_lstm_model.keras"
      [] OTHER -> "models/_lstm_model.keras"

NoneTriple == [model |-> NoneV, scaler |-> NoneV, features |-> NoneV]

\* line 96: int(len(X) * 0.8)
SplitIndex(n) == (n * 4) \div 5

\* lines 97-98: X[:split_index], X[split_index:] (and the same for y)
TrainPart_Tail(a, split_index) == Slice(a, Len(a) - split_index, Len(a))
TrainPart(a, split_index) == Slice(a, 0, split_index)
ValPart(a, split_index) == Slice(a, split_index, Len(a))

\* lines 96-98: the sets that model.fit is given, (X_train, y_train) and
\* validation_data = (X_val, y_val)
TrainValSplit(X, y) ==
    LET split_index == SplitIndex(Len(X))
    IN  [kind |-> "split", split_index |-> split_index,
         X_train |-> TrainPart(X, split_index), y_train |-> TrainPart(y, split_index),
         X_val |-> ValPart(X, split_index), y_val |-> ValPart(y, split_index)]

\* line 100: the guard that aborts training
SplitDegenerate_ValOnly(X_train, X_val) == Len(X_val) = 0
SplitDegenerate(X_train, X_val) == Len(X_train) = 0 \/ Len(X_val) = 0

\* One execution of the body of train_model.  files is the models/ directory,
\* run numbers the network that a fit would produce and w stands for the
\* weights that fit converges to (the value the network outputs).  Returns the
\* path taken, the returned triple and the directory afterwards.
train_model(t, df, force, files, run, w) ==
    LET model_path == ModelPath(t)
    IN  IF ~IsNone(files[model_path]) /\ ~force
        THEN [path |-> "load", files |-> files,
              ret |-> [model |-> files[model_path], scaler |-> NoneV, features |-> NoneV]]
        ELSE LET pre == preprocess_data(df, LOOKBACK_WINDOW)
             IN  IF pre.status = "ValueError"
                 THEN [path |-> "ValueError", files |-> files, ret |-> NoneTriple]
                 ELSE IF pre.status = "none"
                 THEN [path |-> "nodata", files |-> files, ret |-> NoneTriple]
                 ELSE LET sets == TrainValSplit(pre.X, pre.y)
                      IN  IF SplitDegenerate(sets.X_train, sets.X_val)
                          THEN [path |-> "degenerate", files |-> files, ret |-> NoneTriple]
                          ELSE LET \* X[:k] keeps the trailing dimensions (L, F) of X
                                   fit == [kind |-> "model", run |-> run,
                                           L |-> Len(pre.X[1]), F |-> Len(pre.X[1][1]),
                                           w |-> w]
                               IN  [path |-> "fit",
                                    files |-> [files EXCEPT ![model_path] = fit],
                                    ret |-> [model |-> fit, scaler |-> pre.scaler,
                                             features |-> pre.features]]

\* ------------------------------------------------------------------------
\* model.predict_next_move
\* ------------------------------------------------------------------------
\* rationals <<n, d>> with d > 0
RatGT(a, b) == a[1] * b[2] > b[1] * a[2]
RatEq(a, b) == a[1] * b[2] = b[1] * a[2]

\* line 160
Direction_GE(predicted_price, last_close) ==
    IF ~RatGT(<<last_close, 1>>, predicted_price) THEN "Up" ELSE "Down"
Direction(predicted_price, last_close) ==
    IF RatGT(predicted_price, <<last_close, 1>>) THEN "Up" ELSE "Down"

\* lines 161-163: np.abs(predicted_price - last_close) / last_close
Confidence_Signed(predicted_price, last_close) ==
    <<predicted_price[1] - last_close * predicted_price[2], predicted_price[2] * last_close>>
Confidence(predicted_price, last_close) ==
    <<Abs(predicted_price[1] - last_close * predicted_price[2]), predicted_price[2] * last_close>>

\* line 141: the scaler object once scaler.transform(last_sequence) has
\* returned; transform reads data_min_ and data_max_ and assigns nothing
\* (fit_transform would replace them by the minima and maxima of the window)
InferenceScaler_Refit(sc, last_sequence) == ScalerFit(last_sequence)
InferenceScaler(sc, last_sequence) == sc

\* the result is the 2-tuple (None, None), the 3-tuple, or an exception;
\* scaler is the scaler object as the call leaves it (the model and the
\* feature list are only read: predict, len, index and indexing by them)
predict_next_move(m, df, sc0, features, lookback) ==
    IF IsNone(m) \/ IsNone(sc0) \/ Len(df.rows) < lookback
    THEN [kind |-> "tuple2", scaler |-> sc0]
    ELSE IF IsNone(features) \/ \E k \in 1..Len(features.names) : ~Contains(df.cols, features.names[k])
    THEN [kind |-> "KeyError", scaler |-> sc0]
    ELSE LET last_sequence == Tail_n(Values(df, features.names), lookback)
             sc == InferenceScaler(sc0, last_sequence)
         IN  IF Len(features.names) # Len(sc0.dmin)
             THEN [kind |-> "ValueError", scaler |-> sc0]  \* scaler.transform: wrong number of columns
             ELSE IF <<Len(last_sequence), Len(features.names)>> # <<m.L, m.F>>
             THEN [kind |-> "ValueError", scaler |-> sc]   \* model.predict: incompatible input shape
             ELSE IF ~Contains(features.names, TARGET_VARIABLE)
             THEN [kind |-> "ValueError", scaler |-> sc]   \* features.index
             ELSE LET scaled_sequence == ScalerTransform(sc, last_sequence)
                      predicted_price_scaled == <<m.w, PredDen>>
                      num_features == Len(features.names)
                      close_idx == IndexOf(features.names, TARGET_VARIABLE)
                      dummy_array == [k \in 1..num_features |->
                                         IF k = close_idx + 1 THEN predicted_price_scaled
                                         ELSE <<0, 1>>]
                      predicted_price == ScalerInverseRow(sc, dummy_array)[close_idx + 1]
                      last_close == df.rows[Len(df.rows)][TARGET_VARIABLE]
                  IN  [kind |-> "tuple3", scaler |-> sc,
                       direction |-> Direction(predicted_price, last_close),
                       price |-> predicted_price,
                       confidence |-> Confidence(predicted_price, last_close)]

\* ------------------------------------------------------------------------
\* st.cache_resource around train_model
\* ------------------------------------------------------------------------
\* the hash streamlit takes of a dataframe argument: its shape, columns and
\* contents (here the first and last rows stand for the contents)
HashFrame(df) ==
    IF IsEmpty(df) THEN <<0, df.cols>>
    ELSE <<Len(df.rows), df.cols, df.rows[1], df.rows[Len(df.rows)]>>

\* the memo is a set of [key, val]; the key is made of the call's arguments
CacheKey(t, df, force) == <<t, HashFrame(df), force>>
CacheHit(memo, key) == \E e \in memo : e.key = key
CacheGet(memo, key) == (CHOOSE e \in memo : e.key = key).val

\* a call of the decorated train_model: answered from the memo when the
\* arguments were seen before, else the body runs and its return value is
\* memoised (an exception is not)
cached_train_model(t, df, force, files, memo, run, w) ==
    LET key == CacheKey(t, df, force)
    IN  IF CacheHit(memo, key)
        THEN [path |-> "cache", files |-> files, ret |-> CacheGet(memo, key), memo |-> memo]
        ELSE LET r == train_model(t, df, force, files, run, w)
             IN  [path |-> r.path, files |-> r.files, ret |-> r.ret,
                  memo |-> IF r.path = "ValueError" THEN memo
                           ELSE memo \cup {[key |-> key, val |-> r.ret]}]

\* ------------------------------------------------------------------------
\* app.main, lines 64-69
\* ------------------------------------------------------------------------
\* truthiness of "model and scaler and feature_list"
Truthy(v) == ~IsNone(v) /\ (v.kind = "list" => Len(v.names) > 0)

\* scaler is main's scaler object after lines 64-69 (the object that
\* predict_next_move was given, if it was called)
main_predict(m, sc, features, df, lookback) ==
    IF Truthy(m) /\ Truthy(sc) /\ Truthy(features) /\ ~IsEmpty(df)
    THEN LET r == predict_next_move(m, df, sc, features, lookback)
         IN  IF r.kind = "tuple3"
             THEN [prediction_data |-> [kind |-> "tuple3", direction |-> r.direction,
                                        price |-> r.price, confidence |-> r.confidence],
                   raised |-> "", scaler |-> r.scaler]
             ELSE \* a 2-tuple cannot be unpacked into three names (ValueError);
                  \* an exception of predict_next_move propagates
                  [prediction_data |-> NoneV,
                   raised |-> IF r.kind = "tuple2" THEN "ValueError" ELSE r.kind,
                   scaler |-> r.scaler]
    ELSE [prediction_data |-> NoneV, raised |-> "", scaler |-> sc]

\* ------------------------------------------------------------------------
\* State
\* ------------------------------------------------------------------------
VARIABLES
    \* a direct call of preprocess_data: its arguments and its result
    preDf, preL, preRes,
    \* app.main: where the last script run ended, and its local variables then
    pc, ticker, lookback_window, force_retrain, df_hist, df_features,
    model, scaler, feature_list, prediction_data,
    \* the exception that ended the script run, if any
    raised,
    \* how the train_model call of the run was answered:
    \* "cache" (memo hit) or the path its body took
    via,
    \* models/ directory: file path -> saved network, NoneV when no file exists
    store,
    \* st.cache_resource memo of train_model
    cache,
    \* number of script runs so far, number of networks fitted so far
    runs, fits,
    \* history: for every fitted network, the triple its training run returned
    fitted,
    \* history: per file path, the run numbers of the networks saved there, in order
    saved,
    \* two sessions in train_model for one ticker at the same time:
    \* the file at the ticker's model path as it is on disk right now
    disk,
    \* the retraining session: its position in train_model and the network it
    \* holds in memory
    wpc, wmodel,
    \* the session without force_retrain: its position and what load_model gave
    rpc, loaded,
    \* a direct call of train_model: the feature table it is given and the
    \* train/validation sets it hands to model.fit
    splitDf, split

preVars == <<preDf, preL, preRes>>
mainVars == <<pc, ticker, lookback_window, force_retrain, df_hist, df_features,
              model, scaler, feature_list, prediction_data, raised, via>>
sysVars == <<store, cache, runs, fits, fitted, saved>>
ioVars == <<disk, wpc, wmodel, rpc, loaded>>
splitVars == <<splitDf, split>>
vars == <<preVars, mainVars, sysVars, ioVars, splitVars>>

\* ------------------------------------------------------------------------
\* Inputs
\* ------------------------------------------------------------------------
\* data_loader.NIFTY_50_TICKERS (one of them)
Tickers == {"TCS.NS"}
Paths == {ModelPath(t) : t \in Tickers}

\* the slider of render_sidebar ranges over 30..90, default 60; the runs
\* take the two ends and the default
SLIDER_MIN == 30
SLIDER_MAX == 90
Lookbacks == {SLIDER_MIN, LOOKBACK_WINDOW, SLIDER_MAX}

\* lengths of the price history after adjust_for_holidays: just under and
\* at the 90-row minimum (no window), one window and two windows
HistLengths == {89, 90, 91, 92}

Prices == <<110, 90, 100>>

\* the table returned by get_historical_data and adjust_for_holidays; the
\* volume has its peak on the first day that generate_features keeps, so the
\* last 60 rows of the feature table do not span the range of the whole
HistTable(n) ==
    IF n = 0 THEN EmptyFrame
    ELSE [cols |-> <<"Close", "Volume">>, num |-> {"Close", "Volume"},
          rows |-> [j \in 1..n |->
                      [Close |-> Prices[(j % Len(Prices)) + 1],
                       Volume |-> IF j = VOLATILITY_WINDOW + 1 THEN 30 ELSE 10 * (j % 2)]]]

\* scaled outputs a fitted network can produce, as numerators over PredDen
Weights == 0..PredDen

\* ------------------------------------------------------------------------
\* Initial state
\* ------------------------------------------------------------------------
MainInit ==
    /\ pc = "start" /\ ticker = "" /\ lookback_window = 0 /\ force_retrain = FALSE
    /\ df_hist = EmptyFrame /\ df_features = EmptyFrame
    /\ model = NoneV /\ scaler = NoneV /\ feature_list = NoneV
    /\ prediction_data = NoneV /\ raised = "" /\ via = ""

PrePending == [status |-> "pending", X |-> <<>>, y |-> <<>>,
               scaler |-> NoneV, features |-> NoneV]

SysInit ==
    /\ store = [p \in Paths |-> NoneV]
    /\ cache = {}
    /\ runs = 0 /\ fits = 0
    /\ fitted = {}
    /\ saved = [p \in Paths |-> <<>>]

IoInit ==
    /\ disk = NoneV
    /\ wpc = "idle" /\ wmodel = NoneV
    /\ rpc = "idle" /\ loaded = NoneV

SplitPending == [kind |-> "pending"]

SplitInit == splitDf = EmptyFrame /\ split = SplitPending

Init ==
    /\ MainInit /\ SysInit /\ IoInit /\ SplitInit
    /\ preDf = EmptyFrame /\ preL = LOOKBACK_WINDOW /\ preRes = PrePending

\* ------------------------------------------------------------------------
\* app.main: one script run, from the sidebar to the prediction
\* ------------------------------------------------------------------------
\* the part of a run after train_model has returned r (lines 62-69)
MainAfterTrain(t, features, lookback, r) ==
    LET p == main_predict(r.ret.model, r.ret.scaler, r.ret.features, features, lookback)
    IN  /\ via' = r.path
        /\ store' = r.files
        /\ cache' = r.memo
        /\ IF r.path = "fit"
           THEN /\ fits' = fits + 1
                /\ fitted' = fitted \cup {r.ret}
                /\ saved' = [saved EXCEPT ![ModelPath(t)] = Append(@, fits + 1)]
           ELSE UNCHANGED <<fits, fitted, saved>>
        /\ IF r.path = "ValueError"
           THEN /\ pc' = "error" /\ raised' = "ValueError"
                /\ model' = NoneV /\ scaler' = NoneV /\ feature_list' = NoneV
                /\ prediction_data' = NoneV
           ELSE /\ model' = r.ret.model
                /\ scaler' = p.scaler
                /\ feature_list' = r.ret.features
                /\ prediction_data' = p.prediction_data
                /\ raised' = p.raised
                /\ pc' = IF p.raised = "" THEN "finished" ELSE "error"

\* the run ends before train_model is called
MainReturnEarly(at) ==
    /\ pc' = at
    /\ model' = NoneV /\ scaler' = NoneV /\ feature_list' = NoneV
    /\ prediction_data' = NoneV /\ raised' = "" /\ via' = ""
    /\ UNCHANGED <<store, cache, fits, fitted, saved>>

\* t, force: the sidebar's ticker and checkbox; n: rows of history fetched.
\* The slider's lookback is chosen below, as are the weights w that a fit of
\* this run converges to (w matters only to a run that fits a network).
\* The models/ directory and the memo outlive the run; the locals do not.
Main(t, n, force) ==
    LET hist == HistTable(n)
        features == generate_features(hist)
        r0 == cached_train_model(t, features, force, store, cache, fits + 1, 0)
        fit == ~IsEmpty(hist) /\ ~IsEmpty(features) /\ r0.path = "fit"
    IN  /\ runs < MaxRuns
        /\ runs' = runs + 1
        /\ ticker' = t /\ force_retrain' = force
        /\ df_hist' = hist
        /\ df_features' = IF IsEmpty(hist) THEN EmptyFrame ELSE features
        /\ \E lookback \in Lookbacks :
              /\ lookback_window' = lookback
              /\ IF IsEmpty(hist) THEN MainReturnEarly("no_history")       \* lines 46-50
                 ELSE IF IsEmpty(features) THEN MainReturnEarly("no_features")  \* lines 56-58
                 ELSE \E w \in IF fit THEN Weights ELSE {0} :
                        LET r == IF w = 0 THEN r0
                                 ELSE cached_train_model(t, features, force, store, cache,
                                                         fits + 1, w)
                        IN  MainAfterTrain(t, features, lookback, r)
        /\ UNCHANGED <<preVars, splitVars, ioVars>>

Next ==
    \E t \in Tickers, n \in HistLengths, force \in BOOLEAN : Main(t, n, force)

Spec == Init /\ [][Next]_vars

\* ------------------------------------------------------------------------
\* Direct calls of preprocess_data on small tables
\* ------------------------------------------------------------------------
PreLayouts ==
    { [cols |-> <<"Close", "Volume">>, num |-> {"Close", "Volume"}],
      [cols |-> <<"Volume", "Close">>, num |-> {"Close", "Volume"}],
      [cols |-> <<"Close", "Volume">>, num |-> {"Volume"}],
      [cols |-> <<"Volume">>, num |-> {"Volume"}] }

\* the values a column takes; a column of non-numeric dtype holds one
\* stand-in value, its content is never read
ColumnValues(layout, c) ==
    IF c \notin layout.num THEN {0}
    ELSE IF c = "Close" THEN {1, 2, 3} ELSE {0, 10}

PreRows(layout) ==
    LET C == {layout.cols[k] : k \in 1..Len(layout.cols)}
    IN  {r \in [C -> 0..10] : \A c \in C : r[c] \in ColumnValues(layout, c)}

PreTables ==
    UNION { UNION { { [cols |-> l.cols, num |-> l.num, rows |-> rs] :
                        rs \in [1..n -> PreRows(l)] } : n \in 0..MaxRows } : l \in PreLayouts }

InitPre ==
    /\ preDf \in PreTables
    /\ preL \in 1..MaxLookback
    /\ preRes = PrePending
    /\ MainInit /\ SysInit /\ IoInit /\ SplitInit

CallPreprocess ==
    /\ preRes = PrePending
    /\ preRes' = preprocess_data(preDf, preL)
    /\ UNCHANGED <<preDf, preL, splitVars, mainVars, sysVars, ioVars>>

NextPre == CallPreprocess

SpecPre == InitPre /\ [][NextPre]_vars

\* ------------------------------------------------------------------------
\* Two sessions inside train_model for the same ticker
\* ------------------------------------------------------------------------
\* One session retrains (force_retrain ticked), the other asks without
\* force_retrain; both run the body of train_model, whose only shared object
\* is the file at model_path.  train_model takes no lock and writes no
\* temporary file: line 120 hands model_path itself to model.save, which
\* opens that file for writing (emptying it) and fills it piece by piece.
SaveTicker == "TCS.NS"
SaveFeatures == generate_features(HistTable(92))

\* a file is complete once all of its SaveChunks pieces are written
Complete(file) == file.written = SaveChunks

\* load_model(model_path) on the file as it is now: the saved network, or an
\* error on a file that is not a whole archive
load_model(file) ==
    IF Complete(file) THEN file.model
    ELSE [kind |-> "BadZipFile", run |-> file.model.run, written |-> file.written]

\* lines 87-118: preprocess, split, build and fit, all in memory
WriterTrain(w) ==
    LET r == train_model(SaveTicker, SaveFeatures, TRUE,
                         [p \in Paths |-> NoneV], fits + 1, w)
    IN  /\ wpc = "idle"
        /\ fits < MaxRuns
        /\ r.path = "fit"
        /\ wmodel' = r.ret.model
        /\ wpc' = "trained"
        /\ fits' = fits + 1
        /\ UNCHANGED <<preVars, splitVars, mainVars, store, cache, runs, fitted, saved,
                       disk, rpc, loaded>>

\* line 120, model.save opens model_path for writing: the old content is gone
SaveOpen ==
    /\ wpc = "trained"
    /\ disk' = [kind |-> "file", model |-> wmodel, written |-> 0]
    /\ wpc' = "saving"
    /\ UNCHANGED <<preVars, splitVars, mainVars, sysVars, wmodel, rpc, loaded>>

\* line 120, model.save writes the next piece
SaveWrite ==
    /\ wpc = "saving"
    /\ ~Complete(disk)
    /\ disk' = [disk EXCEPT !.written = @ + 1]
    /\ UNCHANGED <<preVars, splitVars, mainVars, sysVars, wpc, wmodel, rpc, loaded>>

\* line 120 returns, lines 121-123
SaveClose ==
    /\ wpc = "saving"
    /\ Complete(disk)
    /\ wpc' = "idle"
    /\ wmodel' = NoneV
    /\ UNCHANGED <<preVars, splitVars, mainVars, sysVars, disk, rpc, loaded>>

\* line 83 with force_retrain = False: os.path.exists(model_path)
ReaderCheck ==
    /\ rpc = "idle"
    /\ rpc' = IF ~IsNone(disk) THEN "exists" ELSE "train"
    /\ UNCHANGED <<preVars, splitVars, mainVars, sysVars, disk, wpc, wmodel, loaded>>

\* line 85: load_model(model_path)
ReaderLoad ==
    /\ rpc = "exists"
    /\ loaded' = load_model(disk)
    /\ rpc' = "loaded"
    /\ UNCHANGED <<preVars, splitVars, mainVars, sysVars, disk, wpc, wmodel>>

\* the session's call of train_model is over (line 85 returned or raised, or
\* the call went on to train, which is the other session's part)
ReaderReturn ==
    /\ rpc \in {"loaded", "train"}
    /\ rpc' = "idle"
    /\ loaded' = NoneV
    /\ UNCHANGED <<preVars, splitVars, mainVars, sysVars, disk, wpc, wmodel>>

NextSave ==
    \/ \E w \in Weights : WriterTrain(w)
    \/ SaveOpen
    \/ SaveWrite
    \/ SaveClose
    \/ ReaderCheck
    \/ ReaderLoad
    \/ ReaderReturn

SpecSave == Init /\ [][NextSave]_vars

\* ------------------------------------------------------------------------
\* Direct calls of train_model on feature tables of 0 to MaxWindows windows
\* ------------------------------------------------------------------------
\* feature tables with the two column orders, the price cycle started at
\* each of its phases and a volume that differs from row to row, so that
\* no two windows of a table are equal
SplitLengths == (LOOKBACK_WINDOW - 1)..(LOOKBACK_WINDOW + MaxWindows)
SplitTable(n, k, cols) ==
    [cols |-> cols, num |-> {"Close", "Volume"},
     rows |-> [j \in 1..n |->
                 [Close |-> Prices[((j + k) % Len(Prices)) + 1],
                  Volume |-> 10 * (j + k)]]]
SplitTables ==
    {SplitTable(n, k, cols) : n \in SplitLengths, k \in 1..Len(Prices),
                              cols \in {<<"Close", "Volume">>, <<"Volume", "Close">>}}

InitSplit ==
    /\ splitDf \in SplitTables
    /\ split = SplitPending
    /\ MainInit /\ SysInit /\ IoInit
    /\ preDf = EmptyFrame /\ preL = LOOKBACK_WINDOW /\ preRes = PrePending

\* train_model(ticker, df_features, force_retrain=True) with an empty
\* models/ directory; kept are the sets of lines 96-98 (the locals X_train,
\* y_train, X_val, y_val of the call), or the path by which the body
\* returned before line 96
CallTrain ==
    LET r == train_model(SaveTicker, splitDf, TRUE, [p \in Paths |-> NoneV], 1, 0)
        pre == preprocess_data(splitDf, LOOKBACK_WINDOW)
    IN  /\ split = SplitPending
        /\ split' = IF r.path \in {"fit", "degenerate"} THEN TrainValSplit(pre.X, pre.y)
                     ELSE [kind |-> "returned", path |-> r.path]
        /\ UNCHANGED <<splitDf, preVars, mainVars, sysVars, ioVars>>

NextSplit == CallTrain

SpecSplit == InitSplit /\ [][NextSplit]_vars

\* ------------------------------------------------------------------------
\* Properties of preprocess_data (under SpecPre)
\* ------------------------------------------------------------------------
PreCalled == preRes.status # "pending"
PreN == Len(preDf.rows)
PreHasTarget == Contains(NumericColumns(preDf), TARGET_VARIABLE)
ExpectedWindows == Max({0, PreN - preL - PREDICTION_HORIZON + 1})

\* C4: on a table of N rows that has a numeric Close, preprocess_data yields
\* exactly max(0, N - L - horizon + 1) windows, each of L rows by F features,
\* and one target per window; a table of exactly L rows yields the empty result.
C4_WindowCount ==
    (PreCalled /\ PreHasTarget) =>
        /\ preRes.status \in {"ok", "none"}
        /\ Len(preRes.X) = ExpectedWindows
        /\ Len(preRes.y) = Len(preRes.X)
        /\ \A k \in 1..Len(preRes.X) :
              /\ Len(preRes.X[k]) = preL
              /\ \A j \in 1..preL : Len(preRes.X[k][j]) = Len(NumericColumns(preDf))
        /\ (PreN = preL => preRes = NoWindows)
        /\ (preRes.status = "none" <=> ExpectedWindows = 0)

C4_Witness ==
    /\ PreCalled /\ PreHasTarget
    /\ preRes.status = "ok"
    /\ PreN = preL + 2
    /\ Len(preRes.X) = 2

\* the scaled value of column c in row r (0-based) of the table, from the
\* column's minimum and maximum over the whole table
ColumnMin(df, c) == Min({df.rows[r][c] : r \in 1..Len(df.rows)})
ColumnMax(df, c) == Max({df.rows[r][c] : r \in 1..Len(df.rows)})
ScaledCell(df, r, c) ==
    <<df.rows[r + 1][c] - ColumnMin(df, c),
      IF ColumnMax(df, c) = ColumnMin(df, c) THEN 1 ELSE ColumnMax(df, c) - ColumnMin(df, c)>>

\* C5: for every i from L to N - horizon the (i-L+1)-th window is the scaled
\* rows i-L .. i-1 in order and its target is the scaled Close of row
\* i+horizon-1; the last target is the scaled Close of the table's last row.
C5_Alignment ==
    (PreCalled /\ PreHasTarget /\ PreN > preL) =>
        LET feats == NumericColumns(preDf)
        IN  /\ preRes.status = "ok"
            /\ Len(preRes.X) = PreN - PREDICTION_HORIZON - preL + 1
            /\ \A i \in preL..(PreN - PREDICTION_HORIZON) :
                  LET k == i - preL + 1
                  IN  /\ \A j \in 1..preL : \A p \in 1..Len(feats) :
                            preRes.X[k][j][p] = ScaledCell(preDf, i - preL + j - 1, feats[p])
                      /\ preRes.y[k] = ScaledCell(preDf, i + PREDICTION_HORIZON - 1, TARGET_VARIABLE)
            /\ preRes.y[Len(preRes.y)] = ScaledCell(preDf, PreN - 1, TARGET_VARIABLE)

C5_Witness ==
    /\ PreCalled /\ PreHasTarget
    /\ preRes.status = "ok"
    /\ Len(preRes.X) >= 2
    /\ preL >= 2
    /\ preRes.y[1] # preRes.y[2]
    /\ preRes.X[1] # preRes.X[2]

BodyRan == via \notin {"", "cache"}
\* ... and went past the load branch, so preprocess_data was applied
Preprocessed == via \in {"nodata", "degenerate", "fit", "ValueError"}
\* train_model returned in the last script run
TrainReturned == via \in {"cache", "load", "nodata", "degenerate", "fit"}
LastClose == df_features.rows[Len(df_features.rows)][TARGET_VARIABLE]

\* C1: a non-forced request answered by the load branch returns the network
\* together with the scaler and the feature list of the training run that
\* saved it.
C1_RoundTrip ==
    (via = "load") =>
        \E f \in fitted :
            /\ f.model = model
            /\ f.scaler = scaler
            /\ f.features = feature_list

\* C2: once a forced retrain has replaced the saved network of a ticker, no
\* later train_model call for that ticker (memoised ones included) returns
\* a network that was replaced.
C2_RetrainReplaces ==
    (TrainReturned /\ ~IsNone(model)) =>
        LET hist == saved[ModelPath(ticker)]
        IN  \A k \in 1..(Len(hist) - 1) : model.run # hist[k]

\* C3: when a prerequisite of the forecast is missing (no model, no scaler,
\* no feature list, or fewer feature rows than the lookback) the script run
\* ends with no prediction and without an exception.
C3_MissingGivesNone ==
    (/\ TrainReturned
     /\ \/ IsNone(model) \/ IsNone(scaler) \/ IsNone(feature_list)
        \/ Len(df_features.rows) < lookback_window)
    => (raised = "" /\ IsNone(prediction_data))

\* windows, training and validation sizes of a feature table under the
\* default lookback
WindowsOf(df) == Max({0, Len(df.rows) - LOOKBACK_WINDOW - PREDICTION_HORIZON + 1})
TrainSize(df) == (4 * WindowsOf(df)) \div 5
ValSize(df) == WindowsOf(df) - TrainSize(df)

\* C7: when train_model goes on to train and the train or the validation
\* split is empty (no windows included), it returns no model, scaler or
\* feature list and leaves the models/ directory as it was.
C7_DegenerateAborts ==
    [][ (/\ runs' = runs + 1
         /\ via' \in {"nodata", "degenerate", "fit"}
         /\ (TrainSize(df_features') = 0 \/ ValSize(df_features') = 0))
        => (/\ IsNone(model') /\ IsNone(scaler') /\ IsNone(feature_list')
            /\ store' = store
            /\ saved' = saved) ]_vars

C7_Witness ==
    /\ via = "degenerate"
    /\ force_retrain
    /\ WindowsOf(df_features) = 1
    /\ IsNone(model)
    /\ ~IsNone(store[ModelPath(ticker)])

\* C8: a returned forecast has direction "Up" exactly when the predicted
\* price is above the last Close of the feature table, and "Down" otherwise
\* (a tie gives "Down").
C8_DirectionRule ==
    ~IsNone(prediction_data) =>
        /\ prediction_data.direction \in {"Up", "Down"}
        /\ prediction_data.direction = "Up" <=> RatGT(prediction_data.price, <<LastClose, 1>>)
        /\ RatEq(prediction_data.price, <<LastClose, 1>>) => prediction_data.direction = "Down"

C8_Witness ==
    /\ ~IsNone(prediction_data)
    /\ RatEq(prediction_data.price, <<LastClose, 1>>)
    /\ prediction_data.direction = "Down"

\* C9: a returned forecast has confidence >= 0, equal to
\* |predicted - last_close| / last_close with last_close the Close of the
\* last row of the feature table.
C9_Confidence ==
    ~IsNone(prediction_data) =>
        LET conf == prediction_data.confidence
            price == prediction_data.price
        IN  /\ conf[2] > 0 /\ conf[1] >= 0
            /\ conf[1] * (price[2] * LastClose) =
                  Abs(price[1] - LastClose * price[2]) * conf[2]

C9_Witness ==
    /\ ~IsNone(prediction_data)
    /\ LastClose = 100
    /\ RatEq(prediction_data.price, <<110, 1>>)
    /\ RatEq(prediction_data.confidence, <<1, 10>>)
    /\ prediction_data.direction = "Up"

\* C10 as stated: generate_features returns an empty table for fewer than 90
\* rows, and preprocess_data is never applied to a feature table of fewer
\* than 90 rows.
C10_Original ==
    /\ (pc # "start" /\ Len(df_hist.rows) < MIN_DATAFRAME_LENGTH) => IsEmpty(df_features)
    /\ Preprocessed => Len(df_features.rows) >= MIN_DATAFRAME_LENGTH

\* C10 (amended): generate_features returns an empty table for fewer than 90
\* rows, and preprocess_data is never applied to features derived from a
\* price table of fewer than 90 rows.
C10_MinimumOnHistory ==
    /\ (pc # "start" /\ Len(df_hist.rows) < MIN_DATAFRAME_LENGTH) =>
          (IsEmpty(df_features) /\ ~BodyRan /\ via = "")
    /\ Preprocessed => Len(df_hist.rows) >= MIN_DATAFRAME_LENGTH

C10_Witness ==
    /\ via = "fit"
    /\ Len(df_hist.rows) >= MIN_DATAFRAME_LENGTH
    /\ Len(df_features.rows) < MIN_DATAFRAME_LENGTH

\* ------------------------------------------------------------------------
\* Properties of two sessions on one artifact (under SpecSave)
\* ------------------------------------------------------------------------
\* C11: the file is written only by a session that holds a fully trained
\* network, and a session that loads the ticker's file while another
\* retrains gets a complete network (the old or the new one), never a
\* partly written file.
C11_AtomicReplace ==
    /\ (wpc = "saving") => (~IsNone(wmodel) /\ disk.model = wmodel)
    /\ (rpc = "loaded") => loaded.kind = "model"

\* ------------------------------------------------------------------------
\* Properties of the train/validation split (under SpecSplit)
\* ------------------------------------------------------------------------
\* the windows of the table, numbered 1..n by their first row (0-based row
\* k - 1), and the scaled first row of window k taken from the table
SplitWindows == preprocess_data(splitDf, LOOKBACK_WINDOW).X
SplitTargets == preprocess_data(splitDf, LOOKBACK_WINDOW).y
WindowStartsAt(window, r) ==
    LET feats == NumericColumns(splitDf)
    IN  \A p \in 1..Len(feats) : window[1][p] = ScaledCell(splitDf, r, feats[p])

\* C12: of the n windows of the table the training set is the first
\* floor(0.8 n) in order and the validation set the remaining ones in
\* order: together they are all windows, no window is in both, and every
\* training window starts at an earlier row than every validation window.
C12_ChronologicalSplit ==
    (split.kind = "split") =>
        LET n == Len(SplitWindows)
            s == (8 * n) \div 10
        IN  /\ split.split_index = s
            /\ split.X_train = SubSeq(SplitWindows, 1, s)
            /\ split.X_val = SubSeq(SplitWindows, s + 1, n)
            /\ split.y_train = SubSeq(SplitTargets, 1, s)
            /\ split.y_val = SubSeq(SplitTargets, s + 1, n)
            /\ split.X_train \o split.X_val = SplitWindows
            /\ Len(split.X_train) + Len(split.X_val) = n
            /\ \A i \in 1..Len(split.X_train) : \A j \in 1..Len(split.X_val) :
                  LET a == i - 1
                      b == s + j - 1
                  IN  /\ split.X_train[i] # split.X_val[j]
                      /\ WindowStartsAt(split.X_train[i], a)
                      /\ WindowStartsAt(split.X_val[j], b)
                      /\ a < b

C12_Witness ==
    /\ split.kind = "split"
    /\ Len(split.X_train) = 8
    /\ Len(split.X_val) = 2
    /\ split.X_train[8] # split.X_val[1]

\* ------------------------------------------------------------------------
\* Properties of the scaler across script runs (under Spec)
\* ------------------------------------------------------------------------
\* the price that the scaler sc gives back for the network's scaled output
InversePrice(m, sc, features) ==
    LET c == IndexOf(features.names, TARGET_VARIABLE) + 1
    IN  <<sc.dmin[c] * PredDen + m.w * (sc.dmax[c] - sc.dmin[c]), PredDen>>

\* C13: whenever a script run produces a forecast, the network, the scaler
\* and the feature list it ends with are the triple that one training run
\* fitted and returned (the scaler is as fitted, not refit on the inference
\* window), and the forecast price is that scaler's inverse of the
\* network's output.
C13_ScalerReused ==
    ~IsNone(prediction_data) =>
        \E f \in fitted :
            /\ f.model = model
            /\ f.scaler = scaler
            /\ f.features = feature_list
            /\ f.scaler = ScalerFit(Values(df_features, f.features.names))
            /\ RatEq(prediction_data.price, InversePrice(f.model, f.scaler, f.features))

\* a forecast from a memoised triple, made after a retrain fitted and saved
\* another network, by the slider's lookback of 60
C13_Witness ==
    /\ ~IsNone(prediction_data)
    /\ via = "cache"
    /\ fits >= 2
    /\ model.run # store[ModelPath(ticker)].run
    /\ scaler # ScalerFit(Tail_n(Values(df_features, feature_list.names), lookback_window))

\* ------------------------------------------------------------------------
\* Properties of the lookback across training and inference (under Spec)
\* ------------------------------------------------------------------------
\* predict_next_move was called in the last script run and went past its
\* guard of lines 132-138
PredictReached ==
    /\ TrainReturned
    /\ Truthy(model) /\ Truthy(scaler) /\ Truthy(feature_list)
    /\ Len(df_features.rows) >= lookback_window
    /\ \A k \in 1..Len(feature_list.names) : Contains(df_features.cols, feature_list.names[k])

\* the rows sliced on line 140 for the slider's lookback
InferenceWindow == Tail_n(Values(df_features, feature_list.names), lookback_window)

\* C14: whatever lookback the slider has, the window that a script run
\* gives to model.predict has as many rows as the windows the network was
\* trained on, and as many columns: its shape is the network's (L, F).
C14_LookbackConsistency ==
    PredictReached =>
        /\ Len(InferenceWindow) = model.L
        /\ \A j \in 1..Len(InferenceWindow) : Len(InferenceWindow[j]) = model.F

====
